---- MODULE Spec2Model ----
(***************************************************************************)
(* Quote widget of alx_fe_javascript: the quote store, its persistence,    *)
(* user add / file import, and the reconciliation against a remote source. *)
(*                                                                         *)
(* The repository holds several variants of the same script.  Three of     *)
(* them carry a merge routine and are modelled here, selected by the       *)
(* variable `variant`:                                                     *)
(*   "mergeWithServer"     src/dom-manipulation/script.js lines 1-563      *)
(*   "applyServerChanges"  src/dom-manipulation/script.js lines 699-1263   *)
(*   "syncWithServer"      src/unnamed/part_000                            *)
(*                                                                         *)
(* Spec covers the operations on the store in all three variants, SpecSync *)
(* the sync cycle and the scheduler of the first variant (doSync,          *)
(* startSync, stopSync), SpecPeriodic the periodic check of the second     *)
(* (startPeriodicSync, checkForServerUpdates, the notification buttons),   *)
(* SpecPage the page of the first variant without its sync controls: the   *)
(* category filter, the random quote, export and import.                   *)
(*                                                                         *)
(* A text is a sequence of one-character strings, or the marker            *)
(* `undefined` (a missing / null / non-string text).  A category is a      *)
(* string; "" stands for an empty or absent category (both are falsy and   *)
(* the code treats them alike through `|| 'Uncategorized'`).               *)
(***************************************************************************)
EXTENDS Integers, Sequences, FiniteSets, TLC

VARIABLES
  variant,       \* which variant of the script runs
  quotes,        \* the quotes array
  localStorage,  \* the value stored under STORAGE_KEY
  last,          \* the record of the operation that has just run
  inflight,      \* the doSync cycles awaiting their fetch, by showNotification
  syncTimerId,   \* 0 for null, else the id of the interval timer (syncIntervalId
                 \* in the variant with startPeriodicSync)
  syncStatus,    \* the text of #syncStatus, without the time and the counters
  syncDetails,   \* the counters shown in #syncDetails
  lastSyncTime,  \* the value stored under LAST_SYNC_KEY: 0 for none, else a serial
  server,        \* simulatedServer.quotes
  notification,  \* the serverData held by #syncNotification, when it is shown
  timers         \* the ids of the intervals that are set and call the cycle

periodicVars == <<server, notification>>

syncVars ==
  <<inflight, syncTimerId, syncStatus, syncDetails, lastSyncTime, periodicVars,
    timers>>

vars == <<variant, quotes, localStorage, last, syncVars>>

-----------------------------------------------------------------------------
(* Bounds *)

\* largest store the model lets addQuote, an import or a merge of an
\* arbitrary snapshot produce
MaxQuotes == 3
\* largest remote snapshot / imported file / persisted array
MaxBatch == 2
\* most doSync cycles awaiting their fetch at once
MaxInFlight == 2
\* most successful sync cycles of a run
MaxSyncs == 2
\* most startPeriodicSync calls of a run
MaxStarts == 2
\* largest store an import of exported quotes may produce
MaxPageQuotes == 6
\* the values Math.random() takes: k / MaxRandom for k in 0 .. MaxRandom - 1
MaxRandom == 3

-----------------------------------------------------------------------------
(* Values *)

undefined == <<"undefined">>

MergeVariant == "mergeWithServer"
ApplyVariant == "applyServerChanges"
SyncVariant == "syncWithServer"

Variants == {MergeVariant, ApplyVariant, SyncVariant}

\* const quotes = [ ... ]: the three built-in quotes, each text abbreviated
\* to its first letter
seedQuotes ==
  << [text |-> <<"T">>, category |-> "Inspirational"],
     [text |-> <<"L">>, category |-> "Life"],
     [text |-> <<"B">>, category |-> "Humor"] >>

\* what a user can type into #newQuoteText / #newQuoteCategory
UserTexts == { <<" ">>, <<"a", " ">> }
UserCategories == { " ", "X" }

\* texts and categories that the objects of a file or of a persisted array
\* can carry
FileTexts == { <<>>, <<"A", " ">> }
FileCategories == { "", "X" }

\* texts and categories that a remote record can carry
RemoteTexts == { undefined, <<" ">>, <<"a">>, <<"b">> }
RemoteCategories == { "", "Y" }

\* a quote-like record
Record(t, c) == [text |-> t, category |-> c]

\* an element of a parsed JSON array: null, a number, or an object
Element(k, t, c) == [kind |-> k, text |-> t, category |-> c]

FileElements ==
  { Element("null", undefined, ""), Element("number", undefined, "") }
    \cup { Element("object", t, c) : t \in FileTexts, c \in FileCategories }

SeqsUpTo(S, n) == UNION { [1..k -> S] : k \in 0..n }

\* the text handed to JSON.parse: absent, unparsable, a non-array value, or
\* an array
Json(k, items) == [kind |-> k, items |-> items]

JsonTexts ==
  { Json("absent", <<>>), Json("unparsable", <<>>), Json("nonarray", <<>>) }
    \cup { Json("array", items) : items \in SeqsUpTo(FileElements, MaxBatch) }

Snapshots ==
  SeqsUpTo({ Record(t, c) : t \in RemoteTexts, c \in RemoteCategories }, MaxBatch)

-----------------------------------------------------------------------------
(* String helpers *)

IsSpace(c) == c = " "

Lower(c) == CASE c = "A" -> "a"
              [] c = "B" -> "b"
              [] c = "L" -> "l"
              [] c = "T" -> "t"
              [] OTHER -> c

RECURSIVE trimStart(_)
trimStart(s) == IF s # <<>> /\ IsSpace(Head(s)) THEN trimStart(Tail(s)) ELSE s

RECURSIVE trimEnd(_)
trimEnd(s) ==
  IF s # <<>> /\ IsSpace(s[Len(s)]) THEN trimEnd(SubSeq(s, 1, Len(s) - 1)) ELSE s

\* String.prototype.trim
trim(s) == trimEnd(trimStart(s))

\* String.prototype.toLowerCase
toLowerCase(s) == [i \in 1..Len(s) |-> Lower(s[i])]

\* trim of a category typed by the user: the model's categories carry at
\* most blanks around nothing
trimCategory(c) == IF c = " " THEN "" ELSE c

\* typeof t === 'string'
IsString(t) == t # undefined

\* truthiness of a text
Truthy(t) == t # undefined /\ t # <<>>

\* c || 'Uncategorized'
OrUncategorized(c) == IF c = "" THEN "Uncategorized" ELSE c

\* normalizeText(t): String(t || '').trim().toLowerCase()
normalizeText(t) == toLowerCase(trim(IF Truthy(t) THEN t ELSE <<>>))

-----------------------------------------------------------------------------
(* Persistence *)

\* JSON.stringify(quotes) as later seen by JSON.parse: an array of objects;
\* a property whose value is undefined is not written
stringify(qs) ==
  Json("array", [i \in 1..Len(qs) |-> Element("object", qs[i].text, qs[i].category)])

\* q && typeof q.text === 'string'
IsQuoteLike(e) == e.kind = "object" /\ IsString(e.text)

RECURSIVE SelectRecords(_)
\* parsed.forEach(q => { if (quote-like) quotes.push({text, category || default}) })
SelectRecords(items) ==
  IF items = <<>> THEN <<>>
  ELSE LET e == Head(items)
       IN (IF IsQuoteLike(e)
             THEN << Record(e.text, OrUncategorized(e.category)) >>
             ELSE <<>>) \o SelectRecords(Tail(items))

\* loadQuotes of script.js: the store after the call
loadQuotes(qs, raw) ==
  IF raw.kind = "array" THEN SelectRecords(raw.items) ELSE qs

\* saveQuotes: localStorage.setItem(STORAGE_KEY, JSON.stringify(quotes))
saveQuotes(qs) == stringify(qs)

-----------------------------------------------------------------------------
(* Reconciliation of script.js: mergeWithServer *)

NoDetails == [added |-> 0, updated |-> 0, conflictsResolved |-> 0]

Max(S) == CHOOSE x \in S : \A y \in S : y <= x
Min(S) == CHOOSE x \in S : \A y \in S : x <= y

\* the indices of the quotes of qs whose normalized text is key
IndicesOf(qs, key) == { i \in 1..Len(qs) : normalizeText(qs[i].text) = key }

\* a lookup map that keeps the first quote of a text instead of the last
localMapGetFirst(qs, key) ==
  IF IndicesOf(qs, key) = {} THEN 0 ELSE Min(IndicesOf(qs, key))

\* localMap.get(key).idx, 0 when the map has no entry: quotes.forEach sets
\* the key again for every quote, so a later quote replaces an earlier one
localMapGet(qs, key) ==
  IF IndicesOf(qs, key) = {} THEN 0 ELSE Max(IndicesOf(qs, key))

\* a forEach body that overwrites without counting the conflict as resolved
mergeRecordUncounted(st, local, sq) ==
  LET key == normalizeText(sq.text)
      idx == localMapGet(local, key)
  IN IF key = <<>> THEN st
     ELSE IF idx # 0
       THEN IF OrUncategorized(st.quotes[idx].category) # OrUncategorized(sq.category)
              THEN [quotes |-> [st.quotes EXCEPT ![idx].category = OrUncategorized(sq.category)],
                    details |-> [st.details EXCEPT !.updated = @ + 1]]
              ELSE st
       ELSE [quotes |-> Append(st.quotes, Record(sq.text, OrUncategorized(sq.category))),
             details |-> [st.details EXCEPT !.added = @ + 1]]

\* a forEach body that appends the record's category as it came
mergeRecordRawCategory(st, local, sq) ==
  LET key == normalizeText(sq.text)
      idx == localMapGet(local, key)
  IN IF key = <<>> THEN st
     ELSE IF idx # 0
       THEN IF OrUncategorized(st.quotes[idx].category) # OrUncategorized(sq.category)
              THEN [quotes |-> [st.quotes EXCEPT ![idx].category = OrUncategorized(sq.category)],
                    details |-> [st.details EXCEPT !.updated = @ + 1,
                                                   !.conflictsResolved = @ + 1]]
              ELSE st
       ELSE [quotes |-> Append(st.quotes, Record(sq.text, sq.category)),
             details |-> [st.details EXCEPT !.added = @ + 1]]

\* a forEach body that compares with the category the quote had when the
\* map was built
mergeRecordStaleCompare(st, local, sq) ==
  LET key == normalizeText(sq.text)
      idx == localMapGet(local, key)
  IN IF key = <<>> THEN st
     ELSE IF idx # 0
       THEN IF OrUncategorized(local[idx].category) # OrUncategorized(sq.category)
              THEN [quotes |-> [st.quotes EXCEPT ![idx].category = OrUncategorized(sq.category)],
                    details |-> [st.details EXCEPT !.updated = @ + 1,
                                                   !.conflictsResolved = @ + 1]]
              ELSE st
       ELSE [quotes |-> Append(st.quotes, Record(sq.text, OrUncategorized(sq.category))),
             details |-> [st.details EXCEPT !.added = @ + 1]]

\* a forEach body that overwrites the category of a quote it finds without
\* comparing
mergeRecordAlwaysOverwrites(st, local, sq) ==
  LET key == normalizeText(sq.text)
      idx == localMapGet(local, key)
  IN IF key = <<>> THEN st
     ELSE IF idx # 0
       THEN [quotes |-> [st.quotes EXCEPT ![idx].category = OrUncategorized(sq.category)],
             details |-> [st.details EXCEPT !.updated = @ + 1,
                                            !.conflictsResolved = @ + 1]]
       ELSE [quotes |-> Append(st.quotes, Record(sq.text, OrUncategorized(sq.category))),
             details |-> [st.details EXCEPT !.added = @ + 1]]

\* a forEach body that puts a new quote in front of the store
mergeRecordPrepend(st, local, sq) ==
  LET key == normalizeText(sq.text)
      idx == localMapGet(local, key)
  IN IF key = <<>> THEN st
     ELSE IF idx # 0
       THEN IF OrUncategorized(st.quotes[idx].category) # OrUncategorized(sq.category)
              THEN [quotes |-> [st.quotes EXCEPT ![idx].category = OrUncategorized(sq.category)],
                    details |-> [st.details EXCEPT !.updated = @ + 1,
                                                   !.conflictsResolved = @ + 1]]
              ELSE st
       ELSE [quotes |-> << Record(sq.text, OrUncategorized(sq.category)) >> \o st.quotes,
             details |-> [st.details EXCEPT !.added = @ + 1]]

\* a forEach body that overwrites the whole quote with the record
mergeRecordTextToo(st, local, sq) ==
  LET key == normalizeText(sq.text)
      idx == localMapGet(local, key)
  IN IF key = <<>> THEN st
     ELSE IF idx # 0
       THEN IF OrUncategorized(st.quotes[idx].category) # OrUncategorized(sq.category)
              THEN [quotes |-> [st.quotes EXCEPT ![idx] = Record(sq.text, OrUncategorized(sq.category))],
                    details |-> [st.details EXCEPT !.updated = @ + 1,
                                                   !.conflictsResolved = @ + 1]]
              ELSE st
       ELSE [quotes |-> Append(st.quotes, Record(sq.text, OrUncategorized(sq.category))),
             details |-> [st.details EXCEPT !.added = @ + 1]]

\* the body of serverQuotes.forEach: st is the store and the counters so
\* far, local the store the map was built from
mergeRecord(st, local, sq) ==
  LET key == normalizeText(sq.text)
      idx == localMapGet(local, key)
  IN IF key = <<>> THEN st
     ELSE IF idx # 0
       THEN IF OrUncategorized(st.quotes[idx].category) # OrUncategorized(sq.category)
              THEN [quotes |-> [st.quotes EXCEPT ![idx].category = OrUncategorized(sq.category)],
                    details |-> [st.details EXCEPT !.updated = @ + 1,
                                                   !.conflictsResolved = @ + 1]]
              ELSE st
       ELSE [quotes |-> Append(st.quotes, Record(sq.text, OrUncategorized(sq.category))),
             details |-> [st.details EXCEPT !.added = @ + 1]]

RECURSIVE mergeRecords(_, _, _)
mergeRecords(st, local, rest) ==
  IF rest = <<>> THEN st
  ELSE mergeRecords(mergeRecord(st, local, Head(rest)), local, Tail(rest))

\* a pass that applies the first record only
mergeWithServerFirstOnly(qs, serverQuotes) ==
  mergeRecords([quotes |-> qs, details |-> NoDetails], qs,
               SubSeq(serverQuotes, 1, Min({1, Len(serverQuotes)})))

\* mergeWithServer(serverQuotes) on the store qs: the store and the details
\* it returns
mergeWithServer(qs, serverQuotes) ==
  mergeRecords([quotes |-> qs, details |-> NoDetails], qs, serverQuotes)

-----------------------------------------------------------------------------
(* Reconciliation of the other variants *)

\* quotes.findIndex(q => q.text === text) + 1: 0 when no quote has the text
findIndex(qs, text) ==
  IF \E i \in 1..Len(qs) : qs[i].text = text
    THEN Min({ i \in 1..Len(qs) : qs[i].text = text })
    ELSE 0

\* the texts of a list of records, in the order of their first occurrence:
\* the key order of new Map(list.map(q => [q.text, q]))
RECURSIVE mapKeys(_, _)
mapKeys(list, seen) ==
  IF list = <<>> THEN <<>>
  ELSE IF Head(list).text \in seen
    THEN mapKeys(Tail(list), seen)
    ELSE <<Head(list).text>> \o mapKeys(Tail(list), seen \cup {Head(list).text})

\* map.get(text): the last record of the list with that text
mapGet(list, text) ==
  list[Max({ i \in 1..Len(list) : list[i].text = text })]

\* the body of serverMap.forEach of applyServerChanges: qs is the store so
\* far, local the store localMap was built from
applyRecord(qs, local, sq) ==
  IF \E i \in 1..Len(local) : local[i].text = sq.text
    THEN IF findIndex(qs, sq.text) # 0
           THEN [qs EXCEPT ![findIndex(qs, sq.text)] =
                             Record(sq.text, OrUncategorized(sq.category))]
           ELSE qs
    ELSE Append(qs, Record(sq.text, OrUncategorized(sq.category)))

RECURSIVE applyRecords(_, _, _, _)
applyRecords(qs, local, serverData, keys) ==
  IF keys = <<>> THEN qs
  ELSE applyRecords(applyRecord(qs, local, mapGet(serverData, Head(keys))),
                    local, serverData, Tail(keys))

\* applyServerChanges(serverData) on the store qs: the store it leaves
applyServerChanges(qs, serverData) ==
  applyRecords(qs, qs, serverData, mapKeys(serverData, {}))

\* the body of serverQuotes.forEach of syncWithServer (part_000)
syncRecord(st, sq) ==
  LET index == findIndex(st.quotes, sq.text)
  IN IF index = 0
       THEN [st EXCEPT !.quotes = Append(@, sq)]
       ELSE IF st.quotes[index].category # sq.category
         THEN [quotes |-> [st.quotes EXCEPT ![index] = sq],
               conflicts |-> st.conflicts + 1]
         ELSE st

RECURSIVE syncRecords(_, _)
syncRecords(st, rest) ==
  IF rest = <<>> THEN st ELSE syncRecords(syncRecord(st, Head(rest)), Tail(rest))

\* syncWithServer(serverQuotes) on the store qs: the store it leaves and the
\* conflicts it counts
syncWithServer(qs, serverQuotes) ==
  syncRecords([quotes |-> qs, conflicts |-> 0], serverQuotes)

\* data.forEach(q => { if (q.text) quotes.push(q) }) of part_000's import:
\* reading .text of null throws and ends the loop
RECURSIVE importRecords(_, _)
importRecords(st, items) ==
  IF items = <<>> THEN st
  ELSE LET q == Head(items)
       IN IF q.kind = "null" THEN [st EXCEPT !.threw = TRUE]
          ELSE importRecords(
                 IF q.kind = "object" /\ Truthy(q.text)
                   THEN [st EXCEPT !.quotes = Append(@, Record(q.text, q.category))]
                   ELSE st,
                 Tail(items))

-----------------------------------------------------------------------------
(* State *)

\* `last` is the record of the operation that has just run: its name, the
\* store it found, its argument, the summary it returned, whether an
\* exception escaped it, whether it reported a failure, whether it
\* repeats the operation before it, and whether it called saveQuotes.  The
\* record is dropped by Idle; an operation starts from a state whose record
\* was dropped, or repeats the recorded merge with the same snapshot.
Last(op, pre, arg, ret, threw, failed, again) ==
  [op |-> op, pre |-> pre, arg |-> arg, ret |-> ret,
   threw |-> threw, failed |-> failed, again |-> again, saved |-> FALSE]

\* the record l of a call that called saveQuotes when s holds
Saved(l, s) == [l EXCEPT !.saved = s]

NoLast == Last("idle", <<>>, <<>>, NoDetails, FALSE, FALSE, FALSE)

Details(added, updated, conflictsResolved) ==
  [added |-> added, updated |-> updated, conflictsResolved |-> conflictsResolved]

NoStatus == ""

\* simulatedServer.quotes as the script starts, "To be or not to be ..."
\* abbreviated to "To"
serverSeed ==
  << [text |-> <<"T">>, category |-> "Work"],
     [text |-> <<"L">>, category |-> "Life"],
     [text |-> <<"T", "o">>, category |-> "Literature"] >>

\* no #syncNotification in the page
NoNotification == [shown |-> FALSE, serverData |-> <<>>]

\* let syncTimerId = null, no cycle started, nothing shown or stored yet
SyncInit ==
  /\ inflight = [shown |-> 0, silent |-> 0]
  /\ syncTimerId = 0
  /\ syncStatus = NoStatus
  /\ syncDetails = NoDetails
  /\ lastSyncTime = 0
  /\ server = serverSeed
  /\ notification = NoNotification
  /\ timers = {}

Init ==
  /\ variant \in Variants
  /\ quotes = seedQuotes
  /\ localStorage \in JsonTexts
  /\ last = NoLast
  /\ SyncInit

\* the first run of an operation, or the repetition of the recorded merge
MayRun(op, arg) ==
  \/ last.op = "idle"
  \/ last.op = op /\ last.arg = arg /\ ~last.again

IsAgain(op) == last.op = op

\* the call has returned and its record is dropped
Idle ==
  /\ last.op # "idle"
  /\ last' = NoLast
  /\ UNCHANGED <<variant, quotes, localStorage, syncVars>>

\* loadQuotes(): part_000 parses outside any try block
LoadQuotes ==
  /\ last.op = "idle"
  /\ quotes' = loadQuotes(quotes, localStorage)
  /\ last' = Last("loadQuotes", quotes, localStorage, NoDetails,
                  variant = SyncVariant /\ localStorage.kind = "unparsable",
                  localStorage.kind = "unparsable", FALSE)
  /\ UNCHANGED <<variant, localStorage, syncVars>>

\* addQuote(): the text and the category typed by the user
AddQuote(typedText, typedCategory) ==
  LET text == trim(typedText)
      category == OrUncategorized(trimCategory(typedCategory))
  IN /\ last.op = "idle"
     /\ Len(quotes) < MaxQuotes
     /\ IF text = <<>>
          THEN UNCHANGED <<quotes, localStorage>>
          ELSE /\ quotes' = Append(quotes, Record(text, category))
               /\ localStorage' = saveQuotes(quotes')
     /\ last' = Saved(Last("addQuote", quotes, Record(typedText, typedCategory),
                           NoDetails, FALSE, text = <<>>, FALSE),
                      text # <<>>)
     /\ UNCHANGED <<variant, syncVars>>

\* an import that puts the valid entries in the place of the store
ImportFromJsonFileReplacing(file) ==
  LET valid == SelectRecords(file.items)
      ok == file.kind = "array" /\ valid # <<>>
  IN /\ variant \in {MergeVariant, ApplyVariant}
     /\ last.op = "idle"
     /\ Len(quotes) + Len(valid) <= MaxQuotes
     /\ IF ok
          THEN /\ quotes' = valid
               /\ localStorage' = saveQuotes(quotes')
          ELSE UNCHANGED <<quotes, localStorage>>
     /\ last' = Saved(Last("importFromJsonFile", quotes, file, NoDetails,
                           FALSE, ~ok, FALSE),
                      ok)
     /\ UNCHANGED <<variant, syncVars>>

\* reader.onload of importFromJsonFile of script.js (both variants)
ImportFromJsonFile(file) ==
  LET valid == SelectRecords(file.items)
      ok == file.kind = "array" /\ valid # <<>>
  IN /\ variant \in {MergeVariant, ApplyVariant}
     /\ last.op = "idle"
     /\ Len(quotes) + Len(valid) <= MaxQuotes
     /\ IF ok
          THEN /\ quotes' = quotes \o valid
               /\ localStorage' = saveQuotes(quotes')
          ELSE UNCHANGED <<quotes, localStorage>>
     /\ last' = Saved(Last("importFromJsonFile", quotes, file, NoDetails,
                           FALSE, ~ok, FALSE),
                      ok)
     /\ UNCHANGED <<variant, syncVars>>

\* reader.onload of importFromJsonFile of part_000
ImportFromJsonFilePart(file) ==
  LET res == importRecords([quotes |-> quotes, threw |-> FALSE], file.items)
  IN /\ variant = SyncVariant
     /\ last.op = "idle"
     /\ Len(res.quotes) <= MaxQuotes
     /\ IF file.kind = "array"
          THEN /\ quotes' = res.quotes
               /\ localStorage' = IF res.threw THEN localStorage
                                               ELSE saveQuotes(res.quotes)
          ELSE UNCHANGED <<quotes, localStorage>>
     /\ last' = Saved(Last("importFromJsonFile", quotes, file, NoDetails,
                           file.kind = "unparsable" \/ (file.kind = "array" /\ res.threw),
                           FALSE, FALSE),
                      file.kind = "array" /\ ~res.threw)
     /\ UNCHANGED <<variant, syncVars>>

\* a mergeWithServer that saves after every pass
MergeWithServerAlwaysSaves(serverQuotes) ==
  LET res == mergeWithServer(quotes, serverQuotes)
  IN /\ variant = MergeVariant
     /\ MayRun("mergeWithServer", serverQuotes)
     /\ Len(res.quotes) <= MaxQuotes
     /\ quotes' = res.quotes
     /\ localStorage' = saveQuotes(res.quotes)
     /\ last' = Saved(Last("mergeWithServer", quotes, serverQuotes, res.details,
                           FALSE, FALSE, IsAgain("mergeWithServer")),
                      TRUE)
     /\ UNCHANGED <<variant, syncVars>>

\* mergeWithServer(serverQuotes)
MergeWithServer(serverQuotes) ==
  LET res == mergeWithServer(quotes, serverQuotes)
  IN /\ variant = MergeVariant
     /\ MayRun("mergeWithServer", serverQuotes)
     /\ Len(res.quotes) <= MaxQuotes
     /\ quotes' = res.quotes
     /\ localStorage' = IF res.details.added > 0 \/ res.details.updated > 0
                          THEN saveQuotes(res.quotes)
                          ELSE localStorage
     /\ last' = Saved(Last("mergeWithServer", quotes, serverQuotes, res.details,
                           FALSE, FALSE, IsAgain("mergeWithServer")),
                      res.details.added > 0 \/ res.details.updated > 0)
     /\ UNCHANGED <<variant, syncVars>>

\* applyServerChanges(serverData)
ApplyServerChanges(serverData) ==
  /\ variant = ApplyVariant
  /\ MayRun("applyServerChanges", serverData)
  /\ Len(applyServerChanges(quotes, serverData)) <= MaxQuotes
  /\ quotes' = applyServerChanges(quotes, serverData)
  /\ localStorage' = saveQuotes(quotes')
  /\ last' = Saved(Last("applyServerChanges", quotes, serverData,
                        Details(Len(quotes') - Len(quotes), 0, 0),
                        FALSE, FALSE, IsAgain("applyServerChanges")),
                   TRUE)
  /\ UNCHANGED <<variant, syncVars>>

\* syncWithServer(serverQuotes)
SyncWithServer(serverQuotes) ==
  LET res == syncWithServer(quotes, serverQuotes)
  IN /\ variant = SyncVariant
     /\ MayRun("syncWithServer", serverQuotes)
     /\ Len(res.quotes) <= MaxQuotes
     /\ quotes' = res.quotes
     /\ localStorage' = saveQuotes(res.quotes)
     /\ last' = Saved(Last("syncWithServer", quotes, serverQuotes,
                           Details(Len(res.quotes) - Len(quotes), res.conflicts, res.conflicts),
                           FALSE, FALSE, IsAgain("syncWithServer")),
                      TRUE)
     /\ UNCHANGED <<variant, syncVars>>

Next ==
  \/ Idle
  \/ LoadQuotes
  \/ \E t \in UserTexts, c \in UserCategories : AddQuote(t, c)
  \/ \E file \in JsonTexts \ {Json("absent", <<>>)} : ImportFromJsonFile(file)
  \/ \E file \in JsonTexts \ {Json("absent", <<>>)} : ImportFromJsonFilePart(file)
  \/ \E serverQuotes \in Snapshots : MergeWithServer(serverQuotes)
  \/ \E serverData \in Snapshots : ApplyServerChanges(serverData)
  \/ \E serverQuotes \in Snapshots : SyncWithServer(serverQuotes)

Spec == Init /\ [][Next]_vars

-----------------------------------------------------------------------------
(* The sync cycle of script.js: fetchServerQuotes, doSync, startSync, stopSync *)

PostTitles == { undefined, <<" ", "b">> }
UserIds == { 1, 2 }

\* an entry of the fetched list: null or a post
Post(k, title, userId) == [kind |-> k, title |-> title, userId |-> userId]

Posts ==
  { Post("null", undefined, 1) }
    \cup { Post("object", t, u) : t \in PostTitles, u \in UserIds }

\* how a fetch ends: the request fails, the response is not ok, its body is
\* not a list, or its body is a list
Response(k, items) == [kind |-> k, items |-> items]

Responses ==
  { Response("networkError", <<>>), Response("notOk", <<>>), Response("nonarray", <<>>) }
    \cup { Response("array", items) : items \in SeqsUpTo(Posts, MaxBatch) }

\* `Server-${p.userId}`
ServerCategory(userId) == IF userId = 1 THEN "Server-1" ELSE "Server-2"

\* a fetch that takes a payload that is not a list for an empty list
fetchServerQuotesLenient(response) ==
  IF response.kind \in {"array", "nonarray"}
       /\ \A k \in 1..Len(response.items) : response.items[k].kind = "object"
    THEN [ok |-> TRUE,
          quotes |-> [k \in 1..Len(response.items) |->
                        Record(trim(IF Truthy(response.items[k].title)
                                      THEN response.items[k].title ELSE <<>>),
                               ServerCategory(response.items[k].userId))]]
    ELSE [ok |-> FALSE, quotes |-> <<>>]

\* the quotes fetchServerQuotes returns: the titles trimmed, a missing one
\* as '', and null when it throws (reading .title of a null entry throws)
fetchServerQuotes(response) ==
  IF response.kind = "array"
       /\ \A k \in 1..Len(response.items) : response.items[k].kind = "object"
    THEN [ok |-> TRUE,
          quotes |-> [k \in 1..Len(response.items) |->
                        Record(trim(IF Truthy(response.items[k].title)
                                      THEN response.items[k].title ELSE <<>>),
                               ServerCategory(response.items[k].userId))]]
    ELSE [ok |-> FALSE, quotes |-> <<>>]

InFlight == inflight.shown + inflight.silent

\* the scheduler as a call finds it
Sched == [syncTimerId |-> syncTimerId, inflight |-> inflight, syncStatus |-> syncStatus]

\* the synchronous head of doSync(showNotification): the status line, then
\* the fetch is awaited
doSyncBegin(showNotification) ==
  /\ InFlight < MaxInFlight
  /\ inflight' = IF showNotification
                   THEN [inflight EXCEPT !.shown = @ + 1]
                   ELSE [inflight EXCEPT !.silent = @ + 1]
  /\ syncStatus' = "Syncing..."

InitSync ==
  /\ variant = MergeVariant
  /\ quotes = seedQuotes
  /\ localStorage \in { Json("absent", <<>>), Json("array", <<>>) }
  /\ last = NoLast
  /\ SyncInit

\* click on 'Sync Now': doSync(true)
SyncNow ==
  /\ last.op = "idle"
  /\ doSyncBegin(TRUE)
  /\ last' = Last("syncNow", Sched, <<>>, NoDetails, FALSE, FALSE, FALSE)
  /\ UNCHANGED <<variant, quotes, localStorage, syncTimerId, syncDetails,
                 lastSyncTime, periodicVars, timers>>

\* the interval timer fires: doSync(false).  A tick that comes right after
\* a failed cycle is recorded as such.
TimerTick ==
  /\ last.op = "idle" \/ (last.op = "doSync" /\ last.failed)
  /\ timers # {}
  /\ doSyncBegin(FALSE)
  /\ last' = Last("timerTick", Sched, <<>>, NoDetails, FALSE, FALSE, last.op = "doSync")
  /\ UNCHANGED <<variant, quotes, localStorage, syncTimerId, syncDetails,
                 lastSyncTime, periodicVars, timers>>

\* the id setInterval returns: one that no interval set so far has
setInterval == CHOOSE id \in 1..(Cardinality(timers) + 1) : id \notin timers

\* the intervals left after clearInterval(id)
clearInterval(id) == timers \ {id}

\* a startSync that sets another interval when one is set already
StartSyncNoGuard ==
  /\ last.op = "idle"
  /\ Cardinality(timers) < MaxStarts
  /\ syncTimerId' = setInterval
  /\ timers' = timers \cup {setInterval}
  /\ doSyncBegin(TRUE)
  /\ last' = Last("startSync", Sched, <<>>, NoDetails, FALSE, FALSE, FALSE)
  /\ UNCHANGED <<variant, quotes, localStorage, syncDetails, lastSyncTime, periodicVars>>

\* a startSync that sets the timer and runs no cycle of its own
StartSyncNoImmediate ==
  /\ last.op = "idle"
  /\ IF syncTimerId # 0
       THEN UNCHANGED <<inflight, syncStatus, syncTimerId, timers>>
       ELSE /\ syncTimerId' = setInterval
            /\ timers' = timers \cup {setInterval}
            /\ UNCHANGED <<inflight, syncStatus>>
  /\ last' = Last("startSync", Sched, <<>>, NoDetails, FALSE, FALSE, FALSE)
  /\ UNCHANGED <<variant, quotes, localStorage, syncDetails, lastSyncTime, periodicVars>>

\* startSync(): returns at once when the timer runs, else sets it and runs
\* doSync()
StartSync ==
  /\ last.op = "idle"
  /\ IF syncTimerId # 0
       THEN UNCHANGED <<inflight, syncStatus, syncTimerId, timers>>
       ELSE /\ syncTimerId' = setInterval
            /\ timers' = timers \cup {setInterval}
            /\ doSyncBegin(TRUE)
  /\ last' = Last("startSync", Sched, <<>>, NoDetails, FALSE, FALSE, FALSE)
  /\ UNCHANGED <<variant, quotes, localStorage, syncDetails, lastSyncTime, periodicVars>>

\* a stopSync that also drops the timer's cycles that await their fetch
StopSyncCancelsInFlight ==
  /\ last.op = "idle"
  /\ IF syncTimerId = 0
       THEN UNCHANGED <<syncStatus, syncTimerId, inflight, timers>>
       ELSE /\ timers' = clearInterval(syncTimerId)
            /\ syncTimerId' = 0
            /\ syncStatus' = "Auto sync stopped"
            /\ inflight' = [inflight EXCEPT !.silent = 0]
  /\ last' = Last("stopSync", Sched, <<>>, NoDetails, FALSE, FALSE, FALSE)
  /\ UNCHANGED <<variant, quotes, localStorage, syncDetails, lastSyncTime, periodicVars>>

\* stopSync(): returns at once when no timer runs, else clears it
StopSync ==
  /\ last.op = "idle"
  /\ IF syncTimerId = 0
       THEN UNCHANGED <<syncStatus, syncTimerId, timers>>
       ELSE /\ timers' = clearInterval(syncTimerId)
            /\ syncTimerId' = 0
            /\ syncStatus' = "Auto sync stopped"
  /\ last' = Last("stopSync", Sched, <<>>, NoDetails, FALSE, FALSE, FALSE)
  /\ UNCHANGED <<variant, quotes, localStorage, inflight, syncDetails,
                 lastSyncTime, periodicVars>>

\* click on the auto-sync button
AutoSyncClick == IF syncTimerId # 0 THEN StopSync ELSE StartSync

\* what a cycle finds when its fetch has ended: the page's state, the call
\* that ended just before it and, when that was a cycle, the store that
\* cycle had found
Before ==
  [quotes |-> quotes, localStorage |-> localStorage, syncDetails |-> syncDetails,
   lastSyncTime |-> lastSyncTime, syncTimerId |-> syncTimerId, inflight |-> inflight,
   after |-> last.op,
   first |-> IF last.op = "doSync" THEN last.pre.quotes ELSE quotes]

\* the fetch of a second cycle in flight ends right after that of a first
\* one, with the same response
IsOverlap(response) ==
  /\ last.op = "doSync"
  /\ ~last.failed
  /\ last.pre.after # "doSync"
  /\ response = last.arg

\* a doSync whose catch block also clears the timer
DoSyncStopsOnFailure(showNotification, response) ==
  LET fetched == fetchServerQuotes(response)
      res == mergeWithServer(quotes, fetched.quotes)
      details == res.details
      again == last.op = "timerTick"
  IN /\ \/ last.op = "idle"
        \/ last.op = "timerTick" /\ last.again /\ ~showNotification
        \/ IsOverlap(response)
     /\ IF showNotification THEN inflight.shown > 0 ELSE inflight.silent > 0
     /\ inflight' = IF showNotification
                      THEN [inflight EXCEPT !.shown = @ - 1]
                      ELSE [inflight EXCEPT !.silent = @ - 1]
     /\ IF fetched.ok
          THEN /\ Len(res.quotes) <= MaxQuotes
               /\ lastSyncTime < MaxSyncs
               /\ quotes' = res.quotes
               /\ localStorage' = IF details.added > 0 \/ details.updated > 0
                                    THEN saveQuotes(res.quotes)
                                    ELSE localStorage
               /\ lastSyncTime' = lastSyncTime + 1
               /\ syncStatus' = "Last sync"
               /\ syncDetails' =
                    IF showNotification
                         /\ (details.added > 0 \/ details.updated > 0
                               \/ details.conflictsResolved > 0)
                      THEN details
                      ELSE syncDetails
               /\ last' = Saved(Last("doSync", Before, response, details, FALSE, FALSE, again),
                                details.added > 0 \/ details.updated > 0)
               /\ UNCHANGED <<syncTimerId, timers>>
          ELSE /\ syncStatus' = "Sync failed"
               /\ timers' = clearInterval(syncTimerId)
               /\ syncTimerId' = 0
               /\ last' = Last("doSync", Before, response, NoDetails, FALSE, TRUE, again)
               /\ UNCHANGED <<quotes, localStorage, lastSyncTime, syncDetails>>
     /\ UNCHANGED <<variant, periodicVars>>

\* the rest of doSync(showNotification) once its fetch has ended with
\* `response`: merge and report, or report the failure and return null.  The
\* cycle of a tick that came right after a failed cycle is recorded as such.
DoSync(showNotification, response) ==
  LET fetched == fetchServerQuotes(response)
      res == mergeWithServer(quotes, fetched.quotes)
      details == res.details
      again == last.op = "timerTick"
  IN /\ \/ last.op = "idle"
        \/ last.op = "timerTick" /\ last.again /\ ~showNotification
        \/ IsOverlap(response)
     /\ IF showNotification THEN inflight.shown > 0 ELSE inflight.silent > 0
     /\ inflight' = IF showNotification
                      THEN [inflight EXCEPT !.shown = @ - 1]
                      ELSE [inflight EXCEPT !.silent = @ - 1]
     /\ IF fetched.ok
          THEN /\ Len(res.quotes) <= MaxQuotes
               /\ lastSyncTime < MaxSyncs
               /\ quotes' = res.quotes
               /\ localStorage' = IF details.added > 0 \/ details.updated > 0
                                    THEN saveQuotes(res.quotes)
                                    ELSE localStorage
               /\ lastSyncTime' = lastSyncTime + 1
               /\ syncStatus' = "Last sync"
               /\ syncDetails' =
                    IF showNotification
                         /\ (details.added > 0 \/ details.updated > 0
                               \/ details.conflictsResolved > 0)
                      THEN details
                      ELSE syncDetails
               /\ last' = Saved(Last("doSync", Before, response, details, FALSE, FALSE, again),
                                details.added > 0 \/ details.updated > 0)
          ELSE /\ syncStatus' = "Sync failed"
               /\ last' = Last("doSync", Before, response, NoDetails, FALSE, TRUE, again)
               /\ UNCHANGED <<quotes, localStorage, lastSyncTime, syncDetails>>
     /\ UNCHANGED <<variant, syncTimerId, periodicVars, timers>>

\* the files a user imports while the scheduler runs
SyncFiles ==
  { Json("nonarray", <<>>), Json("array", << Element("object", <<"A", " ">>, "X") >>) }

NextSync ==
  \/ Idle
  \/ LoadQuotes
  \/ \E t \in UserTexts, c \in UserCategories : AddQuote(t, c)
  \/ \E file \in SyncFiles : ImportFromJsonFile(file)
  \/ SyncNow
  \/ TimerTick
  \/ StartSync
  \/ StopSync
  \/ AutoSyncClick
  \/ \E show \in BOOLEAN, response \in Responses : DoSync(show, response)

SpecSync == InitSync /\ [][NextSync]_vars

-----------------------------------------------------------------------------
(* The periodic check of the variant with applyServerChanges:              *)
(* startPeriodicSync, checkForServerUpdates, the notification's buttons.   *)
(* syncTimerId stands for syncIntervalId, the serial of the interval that  *)
(* startPeriodicSync has set; serverUpdateIntervalId is set and cleared    *)
(* with it.  inflight.silent counts the checkForServerUpdates calls that   *)
(* await simulatedServer.fetch().                                          *)

\* const possible = [ ... ] of randomUpdate, each text abbreviated to its
\* first letter
possible ==
  << [text |-> <<"B">>, category |-> "Philosophy"],
     [text |-> <<"I">>, category |-> "Inspirational"],
     [text |-> <<"S">>, category |-> "Design"] >>

\* simulatedServer.randomUpdate() when it picks `pick`
randomUpdate(srv, pick) ==
  IF findIndex(srv, pick.text) # 0
    THEN [srv EXCEPT ![findIndex(srv, pick.text)].category = pick.category]
    ELSE Append(srv, pick)

\* checkForServerUpdates finds the record sq neither new nor changed:
\* localMap keeps the last quote of a text
IsKnown(qs, sq) ==
  /\ \E i \in 1..Len(qs) : qs[i].text = sq.text
  /\ OrUncategorized(mapGet(qs, sq.text).category) = OrUncategorized(sq.category)

\* newOnServer.length === 0 && changedOnServer.length === 0
UpToDate(qs, serverData) ==
  \A k \in 1..Len(serverData) : IsKnown(qs, mapGet(serverData, serverData[k].text))

InitPeriodic ==
  /\ variant = ApplyVariant
  /\ quotes = seedQuotes
  /\ localStorage = Json("absent", <<>>)
  /\ last = NoLast
  /\ SyncInit

\* startPeriodicSync(): clears the interval it set before, sets a new one
\* and runs checkForServerUpdates()
StartPeriodicSync ==
  /\ last.op = "idle"
  /\ syncTimerId < MaxStarts
  /\ InFlight < MaxInFlight
  /\ syncTimerId' = syncTimerId + 1
  /\ timers' = clearInterval(syncTimerId) \cup {syncTimerId + 1}
  /\ inflight' = [inflight EXCEPT !.silent = @ + 1]
  /\ last' = Last("startPeriodicSync", Sched, <<>>, NoDetails, FALSE, FALSE, FALSE)
  /\ UNCHANGED <<variant, quotes, localStorage, syncStatus, syncDetails,
                 lastSyncTime, periodicVars>>

\* the interval of startPeriodicSync fires: checkForServerUpdates()
PeriodicTick ==
  /\ last.op = "idle"
  /\ timers # {}
  /\ InFlight < MaxInFlight
  /\ inflight' = [inflight EXCEPT !.silent = @ + 1]
  /\ last' = Last("periodicTick", Sched, <<>>, NoDetails, FALSE, FALSE, FALSE)
  /\ UNCHANGED <<variant, quotes, localStorage, syncTimerId, syncStatus,
                 syncDetails, lastSyncTime, periodicVars, timers>>

\* the interval of the update generator fires: simulatedServer.randomUpdate()
RandomUpdate(pick) ==
  /\ last.op = "idle"
  /\ syncTimerId # 0
  /\ server' = randomUpdate(server, pick)
  /\ UNCHANGED <<variant, quotes, localStorage, last, inflight, syncTimerId,
                 syncStatus, syncDetails, lastSyncTime, notification, timers>>

\* the rest of checkForServerUpdates once simulatedServer.fetch() has
\* resolved with a copy of the server's quotes
CheckForServerUpdates ==
  /\ last.op = "idle"
  /\ inflight.silent > 0
  /\ inflight' = [inflight EXCEPT !.silent = @ - 1]
  /\ IF UpToDate(quotes, server)
       THEN /\ syncStatus' = "Up to date"
            /\ UNCHANGED notification
       ELSE /\ notification' = [shown |-> TRUE, serverData |-> server]
            /\ UNCHANGED syncStatus
  /\ last' = Last("checkForServerUpdates", Sched, server, NoDetails, FALSE, FALSE, FALSE)
  /\ UNCHANGED <<variant, quotes, localStorage, syncTimerId, syncDetails,
                 lastSyncTime, server, timers>>

\* click on 'Accept Server Changes'
AcceptServerChanges ==
  /\ last.op = "idle"
  /\ notification.shown
  /\ quotes' = applyServerChanges(quotes, notification.serverData)
  /\ localStorage' = saveQuotes(quotes')
  /\ notification' = NoNotification
  /\ syncStatus' = "Updated"
  /\ last' = Saved(Last("applyServerChanges", quotes, notification.serverData,
                        Details(Len(quotes') - Len(quotes), 0, 0),
                        FALSE, FALSE, FALSE),
                   TRUE)
  /\ UNCHANGED <<variant, inflight, syncTimerId, syncDetails, lastSyncTime, server,
                 timers>>

\* click on 'Dismiss'
DismissNotification ==
  /\ last.op = "idle"
  /\ notification.shown
  /\ notification' = NoNotification
  /\ syncStatus' = "Update available"
  /\ UNCHANGED <<variant, quotes, localStorage, last, inflight, syncTimerId,
                 syncDetails, lastSyncTime, server, timers>>

NextPeriodic ==
  \/ Idle
  \/ StartPeriodicSync
  \/ PeriodicTick
  \/ \E k \in 1..Len(possible) : RandomUpdate(possible[k])
  \/ CheckForServerUpdates
  \/ AcceptServerChanges
  \/ DismissNotification

SpecPeriodic == InitPeriodic /\ [][NextPeriodic]_vars

-----------------------------------------------------------------------------
(* The page of script.js: category filter, random quote, export and import *)

\* what a user types into #newQuoteCategory on this page
PageCategories == { "all", "X" }

\* the files a user imports on this page, besides an exported one
PageFiles ==
  { Json("unparsable", <<>>), Json("array", << Element("object", <<"A", " ">>, "") >>) }

\* getFilteredQuotes(category): a missing category and 'all' give the whole
\* store
getFilteredQuotes(qs, category) ==
  IF category = "" \/ category = "all"
    THEN qs
    ELSE SelectSeq(qs, LAMBDA q : OrUncategorized(q.category) = category)

\* the categories populateCategories finds in the store
Categories(qs) == { OrUncategorized(qs[i].category) : i \in 1..Len(qs) }

\* the values of the options populateCategories builds
Options(qs) == {"all"} \cup Categories(qs)

\* every option value #categoryFilter can offer on this page
PageOptions ==
  {"all", "Uncategorized"} \cup PageCategories
    \cup { seedQuotes[i].category : i \in 1..Len(seedQuotes) }

\* the numerators of the values of Math.random()
Randoms == 0..(MaxRandom - 1)

\* an index that rounds up
randIntCeil(max, r) == ((r + 1) * max) \div MaxRandom

\* randInt(max) when Math.random() returns r / MaxRandom
randInt(max, r) == (r * max) \div MaxRandom

\* the file a download of a store delivers, with an empty category for
\* every quote
exportToJsonNoCategory(qs) ==
  Json("array", [i \in 1..Len(qs) |-> Element("object", qs[i].text, "")])

\* the text of the file exportToJson offers for download, as JSON.parse
\* later sees it
exportToJson(qs) == stringify(qs)

\* what showRandomQuote and filterQuotes make of the pool: no quote, or the
\* quote at a random index
Pick(pool, r) ==
  [pool |-> pool, index |-> IF Len(pool) = 0 THEN -1 ELSE randInt(Len(pool), r)]

InitPage ==
  /\ variant = MergeVariant
  /\ quotes = seedQuotes
  /\ localStorage \in { Json("absent", <<>>), Json("array", <<>>) }
  /\ last = NoLast
  /\ SyncInit

\* click on 'Show New Quote': showRandomQuote() with the option `selected`
\* chosen in #categoryFilter
ShowRandomQuote(selected, r) ==
  LET pool == getFilteredQuotes(quotes, selected)
  IN /\ last.op = "idle"
     /\ selected \in Options(quotes)
     /\ last' = Last("showRandomQuote", quotes, selected, Pick(pool, r),
                     FALSE, Len(pool) = 0, FALSE)
     /\ UNCHANGED <<variant, quotes, localStorage, syncVars>>

\* change of #categoryFilter to the option `chosen`: filterQuotes()
FilterQuotes(chosen, r) ==
  LET pool == getFilteredQuotes(quotes, chosen)
  IN /\ last.op = "idle"
     /\ chosen \in Options(quotes)
     /\ last' = Last("filterQuotes", quotes, chosen, Pick(pool, r),
                     FALSE, Len(pool) = 0, FALSE)
     /\ UNCHANGED <<variant, quotes, localStorage, syncVars>>

\* click on 'Export': exportToJson()
ExportToJson ==
  /\ last.op = "idle"
  /\ last' = Last("exportToJson", quotes, <<>>, exportToJson(quotes), FALSE, FALSE, FALSE)
  /\ UNCHANGED <<variant, quotes, localStorage, syncVars>>

\* reader.onload of importFromJsonFile for the file just exported
ImportExported ==
  LET file == last.ret
      valid == SelectRecords(file.items)
      ok == file.kind = "array" /\ valid # <<>>
  IN /\ last.op = "exportToJson"
     /\ Len(quotes) + Len(valid) <= MaxPageQuotes
     /\ IF ok
          THEN /\ quotes' = quotes \o valid
               /\ localStorage' = saveQuotes(quotes')
          ELSE UNCHANGED <<quotes, localStorage>>
     /\ last' = Saved(Last("importFromJsonFile", quotes, file, NoDetails,
                           FALSE, ~ok, TRUE),
                      ok)
     /\ UNCHANGED <<variant, syncVars>>

NextPage ==
  \/ Idle
  \/ LoadQuotes
  \/ \E t \in UserTexts, c \in PageCategories : AddQuote(t, c)
  \/ \E file \in PageFiles : ImportFromJsonFile(file)
  \/ ExportToJson
  \/ ImportExported
  \/ \E c \in PageOptions, r \in Randoms : ShowRandomQuote(c, r)
  \/ \E c \in PageOptions, r \in Randoms : FilterQuotes(c, r)

SpecPage == InitPage /\ [][NextPage]_vars

-----------------------------------------------------------------------------
(* Properties of mergeWithServer *)

MergeOps == {"mergeWithServer", "applyServerChanges", "syncWithServer"}

\* the state right after a mergeWithServer call
Merged == last.op = "mergeWithServer"

\* the normalized text of record j of the snapshot just merged
KeyOf(j) == normalizeText(last.arg[j].text)

\* the category of record j, an empty one read as "Uncategorized"
CategoryOf(j) == OrUncategorized(last.arg[j].category)

\* the quotes of the store before the merge that share record j's text
LocalsOf(j) == IndicesOf(last.pre, KeyOf(j))

\* no other record of the snapshot has record j's normalized text
AloneInSnapshot(j) ==
  \A k \in 1..Len(last.arg) : KeyOf(k) = KeyOf(j) => k = j

\* what record j added to a counter: the counter after the records up to j
\* less the counter after the records before j
Contribution(j, counter) ==
  mergeWithServer(last.pre, SubSeq(last.arg, 1, j)).details[counter]
    - mergeWithServer(last.pre, SubSeq(last.arg, 1, j - 1)).details[counter]

\* C1: a second mergeWithServer with the same snapshot, nothing in between,
\* returns added = 0 and updated = 0 and leaves the store unchanged.
C1_Idempotent ==
  (Merged /\ last.again) =>
    /\ last.ret.added = 0
    /\ last.ret.updated = 0
    /\ quotes = last.pre

\* C2 as stated: a record that matches exactly one local quote overwrites
\* that quote's category when the categories differ, counting once in
\* updated and once in conflictsResolved, and changes nothing when the
\* categories match.
C2_RemoteWinsAnyRecord ==
  Merged =>
    \A j \in 1..Len(last.arg) : \A i \in LocalsOf(j) :
      (KeyOf(j) # <<>> /\ LocalsOf(j) = {i}) =>
        IF OrUncategorized(last.pre[i].category) # CategoryOf(j)
          THEN /\ quotes[i].category = CategoryOf(j)
               /\ Contribution(j, "updated") = 1
               /\ Contribution(j, "conflictsResolved") = 1
          ELSE /\ quotes[i] = last.pre[i]
               /\ Contribution(j, "added") = 0
               /\ Contribution(j, "updated") = 0
               /\ Contribution(j, "conflictsResolved") = 0

\* C2 (amended): the same, for a record whose normalized text no other
\* record of the snapshot carries.
C2_RemoteWins ==
  Merged =>
    \A j \in 1..Len(last.arg) : \A i \in LocalsOf(j) :
      (KeyOf(j) # <<>> /\ LocalsOf(j) = {i} /\ AloneInSnapshot(j)) =>
        IF OrUncategorized(last.pre[i].category) # CategoryOf(j)
          THEN /\ quotes[i].category = CategoryOf(j)
               /\ quotes[i].text = last.pre[i].text
               /\ Contribution(j, "updated") = 1
               /\ Contribution(j, "conflictsResolved") = 1
          ELSE /\ quotes[i] = last.pre[i]
               /\ Contribution(j, "added") = 0
               /\ Contribution(j, "updated") = 0
               /\ Contribution(j, "conflictsResolved") = 0

\* a merge in which one record overwrote its only local match and another
\* found its only local match already in its category
C2_Witness ==
  /\ Merged
  /\ \E j \in 1..Len(last.arg) : \E i \in LocalsOf(j) :
       /\ KeyOf(j) # <<>> /\ LocalsOf(j) = {i} /\ AloneInSnapshot(j)
       /\ OrUncategorized(last.pre[i].category) # CategoryOf(j)
       /\ last.ret.updated = 1 /\ last.ret.conflictsResolved = 1
  /\ \E j \in 1..Len(last.arg) : \E i \in LocalsOf(j) :
       /\ KeyOf(j) # <<>> /\ LocalsOf(j) = {i} /\ AloneInSnapshot(j)
       /\ OrUncategorized(last.pre[i].category) = CategoryOf(j)

\* C3: after a merge pass of any variant the store holds at most one quote
\* per normalized text.
C3_OnePerText ==
  last.op \in MergeOps =>
    \A i, j \in 1..Len(quotes) :
      normalizeText(quotes[i].text) = normalizeText(quotes[j].text) => i = j

\* C4 as stated: with several local quotes of one normalized text, a
\* conflicting record overwrites the first of them and leaves the later
\* ones untouched.
C4_FirstOccurrence ==
  Merged =>
    \A j \in 1..Len(last.arg) :
      (KeyOf(j) # <<>> /\ Cardinality(LocalsOf(j)) > 1 /\ AloneInSnapshot(j)) =>
        LET first == Min(LocalsOf(j))
        IN /\ OrUncategorized(last.pre[first].category) # CategoryOf(j)
                => quotes[first].category = CategoryOf(j)
           /\ \A i \in LocalsOf(j) \ {first} : quotes[i] = last.pre[i]

\* C4 (amended): the lookup map binds the text to the last of them, so the
\* record overwrites the last occurrence and leaves the earlier ones
\* untouched.
C4_LastOccurrence ==
  Merged =>
    \A j \in 1..Len(last.arg) :
      (KeyOf(j) # <<>> /\ Cardinality(LocalsOf(j)) > 1 /\ AloneInSnapshot(j)) =>
        LET final == Max(LocalsOf(j))
        IN /\ OrUncategorized(last.pre[final].category) # CategoryOf(j)
                => quotes[final].category = CategoryOf(j)
           /\ \A i \in LocalsOf(j) \ {final} : quotes[i] = last.pre[i]

\* a merge whose record met two local quotes of its text, both in another
\* category, and overwrote one of them
C4_Witness ==
  /\ Merged
  /\ \E j \in 1..Len(last.arg) :
       /\ KeyOf(j) # <<>> /\ Cardinality(LocalsOf(j)) > 1 /\ AloneInSnapshot(j)
       /\ \A i \in LocalsOf(j) : OrUncategorized(last.pre[i].category) # CategoryOf(j)
       /\ last.ret.updated = 1

\* C5: in every merge routine a record whose trimmed, lower-cased text is
\* that of a local quote is matched to it: it is not appended and not
\* counted as added.
C5_InsensitiveJoin ==
  last.op \in MergeOps =>
    ( (\A j \in 1..Len(last.arg) : KeyOf(j) # <<>> /\ LocalsOf(j) # {})
        => /\ Len(quotes) = Len(last.pre)
           /\ last.ret.added = 0 )

\* the records of a snapshot that mergeWithServer must append to the store
\* local, as quotes, in snapshot order
RECURSIVE Missing(_, _)
Missing(local, snapshot) ==
  IF snapshot = <<>> THEN <<>>
  ELSE (IF normalizeText(Head(snapshot).text) # <<>>
           /\ IndicesOf(local, normalizeText(Head(snapshot).text)) = {}
          THEN << Record(Head(snapshot).text, OrUncategorized(Head(snapshot).category)) >>
          ELSE <<>>) \o Missing(local, Tail(snapshot))

\* every record that matches local quotes is in the category of each of them
AllMatchesAgree ==
  \A j \in 1..Len(last.arg) : \A i \in LocalsOf(j) :
    KeyOf(j) # <<>> => OrUncategorized(last.pre[i].category) = CategoryOf(j)

\* C6: every record with a non-empty normalized text that no local quote
\* shares is appended once, with its text and its category (an empty one as
\* "Uncategorized"), and counted once in added; records that match local
\* quotes of their own category change nothing.
C6_Addition ==
  Merged =>
    /\ last.ret.added = Len(Missing(last.pre, last.arg))
    /\ quotes = SubSeq(quotes, 1, Len(last.pre)) \o Missing(last.pre, last.arg)
    /\ Len(quotes) = Len(last.pre) + last.ret.added
    /\ AllMatchesAgree =>
         /\ SubSeq(quotes, 1, Len(last.pre)) = last.pre
         /\ last.ret.updated = 0
         /\ last.ret.conflictsResolved = 0

\* the spec's example: of two records one matches a local quote of its
\* category and the other, with an empty category, is new
C6_Witness ==
  /\ Merged
  /\ Len(last.arg) = 2
  /\ LocalsOf(1) # {} /\ AllMatchesAgree
  /\ KeyOf(2) # <<>> /\ LocalsOf(2) = {} /\ last.arg[2].category = ""
  /\ last.ret.added = 1 /\ last.ret.updated = 0
  /\ quotes[Len(quotes)] = Record(last.arg[2].text, "Uncategorized")

\* C7: records whose normalized text is empty are skipped: a snapshot of
\* such records leaves the store and the counters as they were.
C7_EmptySkipped ==
  (last.op \in {"mergeWithServer", "syncWithServer"}
     /\ last.arg # <<>>
     /\ \A j \in 1..Len(last.arg) : KeyOf(j) = <<>>) =>
    /\ quotes = last.pre
    /\ last.ret = NoDetails

\* persisted data that is unparsable, not an array, or an array without any
\* quote-like element
Malformed(raw) ==
  \/ raw.kind \in {"unparsable", "nonarray"}
  \/ /\ raw.kind = "array"
     /\ raw.items # <<>>
     /\ \A k \in 1..Len(raw.items) : ~IsQuoteLike(raw.items[k])

\* C9: loadQuotes on malformed persisted data leaves the store as it was
\* and does not throw.
C9_MalformedLoad ==
  (variant = MergeVariant /\ last.op = "loadQuotes" /\ Malformed(last.arg)) =>
    /\ quotes = last.pre
    /\ ~last.threw

\* C10: every quote in the store has a non-empty text.
C10_NonEmptyText ==
  variant = MergeVariant =>
    \A i \in 1..Len(quotes) : quotes[i].text # <<>>

-----------------------------------------------------------------------------
(* Properties of the store: persistence, frame, import errors *)

\* C17 as stated: a merge pass of mergeWithServer or syncWithServer writes
\* the merged store to localStorage when added + updated > 0 and writes
\* nothing otherwise.
C17_SaveIffChanged ==
  [][ last'.op \in {"mergeWithServer", "syncWithServer"} =>
        IF last'.ret.added + last'.ret.updated > 0
          THEN localStorage' = stringify(quotes')
          ELSE localStorage' = localStorage ]_vars

\* C17 (amended): mergeWithServer writes the merged store when
\* added + updated > 0 and writes nothing otherwise; applyServerChanges and
\* syncWithServer write the store after every pass.
C17_SavePerRoutine ==
  [][ /\ last'.op = "mergeWithServer" =>
           IF last'.ret.added + last'.ret.updated > 0
             THEN localStorage' = stringify(quotes') /\ last'.saved
             ELSE localStorage' = localStorage /\ ~last'.saved
      /\ last'.op \in {"applyServerChanges", "syncWithServer"} =>
           localStorage' = stringify(quotes') /\ last'.saved ]_vars

\* a mergeWithServer pass whose records all matched and changed nothing did
\* not write, although the persisted value is not the store
C17_Witness ==
  /\ Merged
  /\ last.arg # <<>>
  /\ \A j \in 1..Len(last.arg) : KeyOf(j) # <<>> /\ LocalsOf(j) # {}
  /\ last.ret = NoDetails
  /\ ~last.saved
  /\ localStorage # stringify(quotes)

\* C18: a merge pass of any variant leaves the text of every quote that was
\* in the store before it, position by position; only the category changes.
C18_TextImmutable ==
  last.op \in MergeOps =>
    /\ Len(quotes) >= Len(last.pre)
    /\ \A i \in 1..Len(last.pre) : quotes[i].text = last.pre[i].text

\* a mergeWithServer pass overwrote the category of a quote whose text
\* differs from the record's in case or blanks
C18_Witness ==
  /\ Merged
  /\ \E j \in 1..Len(last.arg) : \E i \in LocalsOf(j) :
       /\ KeyOf(j) # <<>>
       /\ last.arg[j].text # last.pre[i].text
       /\ quotes[i].category # last.pre[i].category
       /\ quotes[i].category = CategoryOf(j)

\* the operations that may change the store after startup
StoreOps == {"addQuote", "importFromJsonFile"} \cup MergeOps

\* C19: addQuote, importFromJsonFile and the merge routines never shorten
\* the store, and every text in the store before the call is in it after.
C19_NeverDeleted ==
  last.op \in StoreOps =>
    /\ Len(quotes) >= Len(last.pre)
    /\ \A i \in 1..Len(last.pre) :
         \E j \in 1..Len(quotes) : quotes[j].text = last.pre[i].text

\* an import appended its entries to a store that was not empty
C19_Witness ==
  /\ last.op = "importFromJsonFile"
  /\ variant = MergeVariant
  /\ last.pre # <<>>
  /\ Len(quotes) > Len(last.pre)
  /\ SubSeq(quotes, 1, Len(last.pre)) = last.pre

\* the file's top-level value is not an array, or it is an array without
\* any valid entry
FormatError(file) ==
  \/ file.kind = "nonarray"
  \/ file.kind = "array" /\ SelectRecords(file.items) = <<>>

\* C20: an import that meets a format error leaves the store and the
\* persisted quotes as they were and reports the error.
C20_ImportFormatError ==
  (last.op = "importFromJsonFile" /\ FormatError(last.arg)) =>
    /\ quotes = last.pre
    /\ ~last.saved
    /\ last.failed
    /\ ~last.threw

-----------------------------------------------------------------------------
(* Properties of doSync *)

\* the fetch ended in a network error, a response that is not ok, or a
\* payload that is not a list
FetchFailed(response) == response.kind \in {"networkError", "notOk", "nonarray"}

\* C8: a cycle whose fetch fails ends with the store, the persisted quotes,
\* the shown counters and the last-sync mark untouched, returns the failure
\* value and shows "Sync failed".
C8_FailedSync ==
  (last.op = "doSync" /\ FetchFailed(last.arg)) =>
    /\ quotes = last.pre.quotes
    /\ localStorage = last.pre.localStorage
    /\ syncDetails = last.pre.syncDetails
    /\ lastSyncTime = last.pre.lastSyncTime
    /\ last.failed
    /\ last.ret = NoDetails
    /\ syncStatus = "Sync failed"

\* a cycle failed on a payload that is not a list, after an earlier cycle
\* had changed the store
C8_Witness ==
  /\ last.op = "doSync"
  /\ last.arg.kind = "nonarray"
  /\ last.failed
  /\ lastSyncTime > 0
  /\ quotes # seedQuotes
  /\ syncDetails # NoDetails

-----------------------------------------------------------------------------
(* Properties of the scheduler and of concurrent cycles *)

\* C11: startSync on a stopped scheduler sets the timer and starts exactly
\* one cycle at once; every tick of the timer starts exactly one more cycle,
\* and the timer can tick as long as it is set.
C11_SchedulerStart ==
  /\ (last.op = "startSync" /\ last.pre.syncTimerId = 0) =>
       /\ syncTimerId # 0
       /\ inflight = [last.pre.inflight EXCEPT !.shown = @ + 1]
       /\ syncStatus = "Syncing..."
  /\ last.op = "timerTick" =>
       /\ last.pre.syncTimerId # 0
       /\ syncTimerId = last.pre.syncTimerId
       /\ inflight = [last.pre.inflight EXCEPT !.silent = @ + 1]
  /\ (syncTimerId # 0 /\ last.op = "idle" /\ InFlight < MaxInFlight) =>
       ENABLED TimerTick

\* the timer has ticked while the cycle started by startSync awaits its fetch
C11_Witness ==
  /\ last.op = "timerTick"
  /\ syncTimerId # 0
  /\ last.pre.inflight = [shown |-> 1, silent |-> 0]
  /\ inflight = [shown |-> 1, silent |-> 1]
  /\ lastSyncTime = 0

\* C12: starting a scheduler that runs changes nothing (the timer is kept,
\* no cycle is started), and stopping one that is stopped changes nothing;
\* for startSync / stopSync and for startPeriodicSync.
C12_NoOp ==
  /\ (last.op \in {"startSync", "startPeriodicSync"} /\ last.pre.syncTimerId # 0) =>
       /\ syncTimerId = last.pre.syncTimerId
       /\ inflight = last.pre.inflight
       /\ syncStatus = last.pre.syncStatus
  /\ (last.op = "stopSync" /\ last.pre.syncTimerId = 0) =>
       /\ syncTimerId = 0
       /\ inflight = last.pre.inflight
       /\ syncStatus = last.pre.syncStatus

\* C13: stopSync clears the timer and leaves the cycles in flight alone; no
\* tick comes while the timer is cleared, and a cycle in flight can still
\* end.
C13_StopSync ==
  /\ last.op = "stopSync" =>
       /\ syncTimerId = 0
       /\ inflight = last.pre.inflight
  /\ syncTimerId = 0 => ~ENABLED TimerTick
  /\ (last.op = "idle" /\ inflight.silent > 0) =>
       ENABLED DoSync(FALSE, Response("networkError", <<>>))

\* a cycle started by the timer has merged into the store after stopSync
\* cleared the timer
C13_Witness ==
  /\ last.op = "doSync"
  /\ ~last.failed
  /\ syncTimerId = 0
  /\ inflight.silent = last.pre.inflight.silent - 1
  /\ quotes # last.pre.quotes

\* what mergeWithServer makes of the store and the fetched records that the
\* cycle just ended found
Expected ==
  mergeRecords([quotes |-> last.pre.quotes, details |-> NoDetails],
               last.pre.quotes, fetchServerQuotes(last.arg).quotes)

C15_OneInFlight == InFlight <= 1

\* C16: a cycle that fails leaves the timer and the store as they were; the
\* next tick starts a cycle, and that cycle merges what it fetched.
C16_FailedCycle ==
  /\ (last.op = "doSync" /\ last.failed) =>
       /\ syncTimerId = last.pre.syncTimerId
       /\ quotes = last.pre.quotes
  /\ (last.op = "timerTick" /\ last.again) =>
       /\ syncTimerId # 0
       /\ inflight = [last.pre.inflight EXCEPT !.silent = @ + 1]
  /\ (last.op = "doSync" /\ last.again /\ ~last.failed) =>
       /\ syncTimerId # 0
       /\ quotes = Expected.quotes
       /\ last.ret = Expected.details
       /\ syncStatus = "Last sync"

\* the cycle of the tick that followed a failed cycle, the only one in
\* flight, added a quote
C16_Witness ==
  /\ last.op = "doSync"
  /\ last.again
  /\ ~last.failed
  /\ last.pre.inflight = [shown |-> 0, silent |-> 1]
  /\ last.ret.added > 0

-----------------------------------------------------------------------------
(* Properties of the merge routines: categories, precedence, order *)

\* C24: every quote in the store has a non-empty category, in every variant.
C24_NonEmptyCategory ==
  \A i \in 1..Len(quotes) : quotes[i].category # ""

\* C25: after applyServerChanges every quote whose text is that of a server
\* record has the category of that record (of the last such record, the one
\* serverMap keeps), every server text is in the store, and the quotes whose
\* text no server record has are as they were.
C25_ServerPrecedence ==
  last.op = "applyServerChanges" =>
    /\ \A i \in 1..Len(quotes) :
         (\E j \in 1..Len(last.arg) : last.arg[j].text = quotes[i].text) =>
           quotes[i].category = OrUncategorized(mapGet(last.arg, quotes[i].text).category)
    /\ \A j \in 1..Len(last.arg) :
         \E i \in 1..Len(quotes) : quotes[i].text = last.arg[j].text
    /\ \A i \in 1..Len(last.pre) :
         (\A j \in 1..Len(last.arg) : last.arg[j].text # last.pre[i].text) =>
           quotes[i] = last.pre[i]

\* the last record of the snapshot just merged that has record j's
\* normalized text
LastOf(j) == Max({ k \in 1..Len(last.arg) : KeyOf(k) = KeyOf(j) })

\* C26: after mergeWithServer, for every record with a non-empty normalized
\* text the store holds a quote of that normalized text in the category of
\* the last record of the snapshot with that text.
C26_LastRecordWins ==
  Merged =>
    \A j \in 1..Len(last.arg) :
      KeyOf(j) # <<>> =>
        \E i \in 1..Len(quotes) :
          /\ normalizeText(quotes[i].text) = KeyOf(j)
          /\ quotes[i].category = CategoryOf(LastOf(j))

\* two records of one text and two categories met a local quote that was in
\* the category of the second: it was overwritten twice
C26_Witness ==
  /\ Merged
  /\ Len(last.arg) = 2
  /\ KeyOf(1) = KeyOf(2) /\ KeyOf(1) # <<>>
  /\ CategoryOf(1) # CategoryOf(2)
  /\ \E i \in LocalsOf(1) : last.pre[i].category = CategoryOf(2)
  /\ last.ret.updated = 2

\* C30: mergeWithServer leaves the quotes it found at their positions, puts
\* the quotes it adds after them in the order of their records, and the
\* store grows by the added count.
C30_AppendInPlace ==
  Merged =>
    /\ Len(quotes) = Len(last.pre) + last.ret.added
    /\ \A i \in 1..Len(last.pre) : quotes[i].text = last.pre[i].text
    /\ LET news == SelectSeq(last.arg, LAMBDA sq :
                     /\ normalizeText(sq.text) # <<>>
                     /\ IndicesOf(last.pre, normalizeText(sq.text)) = {})
       IN /\ Len(news) = last.ret.added
          /\ \A k \in 1..Len(news) : quotes[Len(last.pre) + k].text = news[k].text

\* a pass added two quotes of different texts after a quote it overwrote
C30_Witness ==
  /\ Merged
  /\ Len(last.pre) = 1
  /\ last.ret.added = 2
  /\ quotes[2].text # quotes[3].text
  /\ quotes[2].text = last.arg[1].text

-----------------------------------------------------------------------------
(* Properties of the page *)

\* the {text, category} pairs of a store
Pairs(qs) == { <<qs[i].text, qs[i].category>> : i \in 1..Len(qs) }

\* C21: importing the file that exportToJson has just made of the store
\* gives a store with the same set of {text, category} pairs.
C21_RoundTrip ==
  (last.op = "importFromJsonFile" /\ last.again) =>
    Pairs(quotes) = Pairs(last.pre)

\* a store of quotes in two categories was exported and imported again
C21_Witness ==
  /\ last.op = "importFromJsonFile"
  /\ last.again
  /\ ~last.failed
  /\ Cardinality(Pairs(last.pre)) >= 2
  /\ \E i, j \in 1..Len(last.pre) : last.pre[i].category # last.pre[j].category
  /\ Len(quotes) = 2 * Len(last.pre)

\* C23: showRandomQuote and filterQuotes select no quote when the pool is
\* empty, and an index within the pool when it is not.
C23_NoEmptyIndex ==
  last.op \in {"showRandomQuote", "filterQuotes"} =>
    IF Len(last.ret.pool) = 0
      THEN last.failed /\ last.ret.index = -1
      ELSE /\ ~last.failed
           /\ last.ret.index >= 0
           /\ last.ret.index < Len(last.ret.pool)

\* showRandomQuote found the store empty, took the 'no quotes' branch and
\* picked no index
C23_Witness ==
  /\ last.op = "showRandomQuote"
  /\ last.pre = <<>>
  /\ last.ret.pool = <<>>
  /\ last.failed
  /\ last.ret.index = -1

\* C29: for a category of the store, "all" included, getFilteredQuotes
\* returns the quotes of that category, in store order.
C29_FilterExact ==
  (last.op = "filterQuotes" /\ last.arg \in Categories(last.pre)) =>
    last.ret.pool = SelectSeq(last.pre, LAMBDA q : OrUncategorized(q.category) = last.arg)

-----------------------------------------------------------------------------
(* Properties of the interval timer *)

\* C28: whatever startSync, stopSync and the auto-sync button have done, at
\* most one interval is set, and one is set exactly when syncTimerId is not
\* null; the one that is set is the one syncTimerId names.
C28_OneTimer ==
  /\ Cardinality(timers) <= 1
  /\ (timers # {}) <=> (syncTimerId # 0)
  /\ syncTimerId # 0 => timers = {syncTimerId}

\* startSync was called while the interval was set, after a cycle had
\* already ended, and one interval is set
C28_Witness ==
  /\ last.op = "startSync"
  /\ last.pre.syncTimerId # 0
  /\ lastSyncTime > 0
  /\ timers = {syncTimerId}

-----------------------------------------------------------------------------
(* Properties of the fetched payload *)

\* the entry is a record with a text
IsValidPost(post) == post.kind = "object" /\ normalizeText(post.title) # <<>>

\* the list mixes entries that are records with a text and entries that are
\* not
IsMixed(items) ==
  /\ \E k \in 1..Len(items) : IsValidPost(items[k])
  /\ \E k \in 1..Len(items) : ~IsValidPost(items[k])

\* C22: a cycle whose fetch returns a list that mixes malformed entries with
\* valid ones does not fail, and when it has ended the store holds a quote
\* for every entry of the list that is a record with a text.
C22_PartialPayload ==
  (last.op = "doSync" /\ last.arg.kind = "array" /\ IsMixed(last.arg.items)) =>
    /\ ~last.failed
    /\ \A k \in 1..Len(last.arg.items) :
         IsValidPost(last.arg.items[k]) =>
           \E i \in 1..Len(quotes) :
             normalizeText(quotes[i].text) = normalizeText(last.arg.items[k].title)

-----------------------------------------------------------------------------
(* Properties of overlapping cycles *)

\* no two records of the snapshot have the same normalized text
DuplicateFree(serverQuotes) ==
  \A i, j \in 1..Len(serverQuotes) :
    i # j => normalizeText(serverQuotes[i].text) # normalizeText(serverQuotes[j].text)

\* C27: of two cycles in flight whose fetches end one right after the other
\* with the same duplicate-free snapshot, whichever ends second adds and
\* updates nothing, and the store it leaves is the one a single merge of the
\* snapshot makes of the store the first cycle found.
C27_OverlapTolerated ==
  (/\ last.op = "doSync"
   /\ last.pre.after = "doSync"
   /\ ~last.failed
   /\ DuplicateFree(fetchServerQuotes(last.arg).quotes)) =>
    /\ last.ret.added = 0
    /\ last.ret.updated = 0
    /\ quotes = last.pre.quotes
    /\ quotes = mergeWithServer(last.pre.first, fetchServerQuotes(last.arg).quotes).quotes

\* the second of two overlapping cycles ended after the first had changed
\* the store with the snapshot both fetched
C27_Witness ==
  /\ last.op = "doSync"
  /\ last.pre.after = "doSync"
  /\ ~last.failed
  /\ fetchServerQuotes(last.arg).quotes # <<>>
  /\ DuplicateFree(fetchServerQuotes(last.arg).quotes)
  /\ last.pre.quotes # last.pre.first
  /\ quotes = last.pre.quotes

====
